---- MODULE Spec2Model ----
(***************************************************************************)
(* A model of muninn_iers.py: the Roman numeral codec, the date handling   *)
(* routines, the four IERS bulletin product types (filename grammar, index *)
(* arithmetic, content analysis) and IERSSynchronizer.sync.                *)
(*                                                                         *)
(* Strings are sequences of one-character strings, so that formatting and  *)
(* parsing are computed the way the code computes them.  The literal       *)
(* prefix of a filename ("bulletina", ...) and its extension ("txt",       *)
(* "xml") are kept as single tokens of such a sequence.                    *)
(* A datetime is its proleptic Gregorian ordinal (datetime.toordinal()).   *)
(* An index is a tuple: <<volume, number>> for bulletin A as in the code,  *)
(* and <<number>> for the integer index of bulletins B, C and D.           *)
(* A raised exception is the string naming it.                             *)
(***************************************************************************)
EXTENDS Integers, Sequences, FiniteSets, TLC

VARIABLES
    archive,        \* the muninn archive: the set of properties records it holds
    format,         \* IERSSynchronizer.format
    rate_limit,     \* IERSSynchronizer.rate_limit
    pc,             \* position of sync: idle, family, probe, sleep, returned, raised
    error,          \* the exception sync raised, "none" otherwise
    product_types,  \* sync's product_types list
    ti,             \* position of the for loop in product_types (1-based)
    index,          \* sync's local variable index
    status,         \* resp.status_code of the last probe (0: none yet)
    probed,         \* history: per product type, the indices probed in this run, in order
    created,        \* history: per product type, the indices create_properties was called for
    nprobes,        \* history: number of probes issued in this run
    slept,          \* history: milliseconds slept since the last probe
    found,          \* history: number of 200 answers in this run
    others,         \* history: number of non-raising answers other than 200/404 in this run
    pass,           \* number of sync runs started
    fn,             \* pure functions: which function is applied
    arg,            \* pure functions: the input
    out             \* pure functions: the result, stage by stage

vars == <<archive, format, rate_limit, pc, error, product_types, ti, index, status,
          probed, created, nprobes, slept, found, others, pass, fn, arg, out>>

syncVars == <<archive, format, rate_limit, pc, error, product_types, ti, index, status,
              probed, created, nprobes, slept, found, others, pass>>

None == "None"

----------------------------------------------------------------------------
(* Python string helpers *)

\* s[lo:hi] with 0-based lo, hi clipped to the string (a Python slice)
Slice(s, lo, hi) ==
    LET h == IF hi > Len(s) THEN Len(s) ELSE hi
    IN  IF lo >= h THEN <<>> ELSE SubSeq(s, lo + 1, h)

UpperOf == [i |-> "I", v |-> "V", x |-> "X", l |-> "L", c |-> "C", d |-> "D", m |-> "M"]

LowerOf == [I |-> "i", V |-> "v", X |-> "x", L |-> "l", C |-> "c", D |-> "d", M |-> "m"]

\* str.upper()
upper(s) == [k \in 1..Len(s) |-> IF s[k] \in DOMAIN UpperOf THEN UpperOf[s[k]] ELSE s[k]]

\* str.lower()
lower(s) == [k \in 1..Len(s) |-> IF s[k] \in DOMAIN LowerOf THEN LowerOf[s[k]] ELSE s[k]]

DigitChars == <<"0", "1", "2", "3", "4", "5", "6", "7", "8", "9">>

IsDigit(c) == \E k \in 1..10 : DigitChars[k] = c

DigitValue(c) == (CHOOSE k \in 1..10 : DigitChars[k] = c) - 1

RECURSIVE str(_)
\* str(n) for n >= 0: the decimal digits
str(n) == IF n < 10 THEN <<DigitChars[n + 1]>>
          ELSE Append(str(n \div 10), DigitChars[(n % 10) + 1])

\* f"{n:03}": zero padded to a minimum width of 3, never truncated
Format03(n) ==
    LET d == str(n)
    IN  IF Len(d) >= 3 THEN d ELSE [k \in 1..(3 - Len(d)) |-> "0"] \o d

RECURSIVE int(_)
\* int(s) for a string of decimal digits
int(s) == IF Len(s) = 0 THEN 0
          ELSE 10 * int(SubSeq(s, 1, Len(s) - 1)) + DigitValue(s[Len(s)])

----------------------------------------------------------------------------
(* Roman numerals *)

romanNumeralMap ==
    << [numeral |-> <<"M">>,      integer |-> 1000],
       [numeral |-> <<"C", "M">>, integer |-> 900],
       [numeral |-> <<"D">>,      integer |-> 500],
       [numeral |-> <<"C", "D">>, integer |-> 400],
       [numeral |-> <<"C">>,      integer |-> 100],
       [numeral |-> <<"X", "C">>, integer |-> 90],
       [numeral |-> <<"L">>,      integer |-> 50],
       [numeral |-> <<"X", "L">>, integer |-> 40],
       [numeral |-> <<"X">>,      integer |-> 10],
       [numeral |-> <<"I", "X">>, integer |-> 9],
       [numeral |-> <<"V">>,      integer |-> 5],
       [numeral |-> <<"I", "V">>, integer |-> 4],
       [numeral |-> <<"I">>,      integer |-> 1] >>

RECURSIVE fromRomanLoop(_, _, _)
\* the for/while loops of fromRoman, from table entry k with the cursor at idx
fromRomanLoop(s, k, idx) ==
    IF k > Len(romanNumeralMap) THEN 0
    ELSE LET e == romanNumeralMap[k]
         IN  IF Slice(s, idx, idx + Len(e.numeral)) = e.numeral
             THEN e.integer + fromRomanLoop(s, k, idx + Len(e.numeral))
             ELSE fromRomanLoop(s, k + 1, idx)

RECURSIVE fromRomanOnce(_, _, _)
\* fromRoman with "if" for "while": every numeral is consumed at most once
fromRomanOnce(s, k, idx) ==
    IF k > Len(romanNumeralMap) THEN 0
    ELSE LET e == romanNumeralMap[k]
         IN  IF Slice(s, idx, idx + Len(e.numeral)) = e.numeral
             THEN e.integer + fromRomanOnce(s, k + 1, idx + Len(e.numeral))
             ELSE fromRomanOnce(s, k + 1, idx)

fromRoman_IfForWhile(s) == fromRomanOnce(upper(s), 1, 0)

fromRoman(s) == fromRomanLoop(upper(s), 1, 0)

RECURSIVE toRomanLoop(_, _)
\* the for/while loops of toRoman, from table entry k with n left to encode
toRomanLoop(n, k) ==
    IF k > Len(romanNumeralMap) THEN <<>>
    ELSE LET e == romanNumeralMap[k]
         IN  IF n >= e.integer
             THEN e.numeral \o toRomanLoop(n - e.integer, k)
             ELSE toRomanLoop(n, k + 1)

toRoman(n) == toRomanLoop(n, 1)

----------------------------------------------------------------------------
(* Product types *)

ProductTypes == {"IERS_A", "IERS_B", "IERS_C", "IERS_D"}

\* the keys of _product_types, in the order of the dictionary
AllProductTypes == <<"IERS_A", "IERS_B", "IERS_C", "IERS_D">>

Formats == {"xml", "txt"}

\* the literal head of filename_pattern
FilenamePrefix(pt) ==
    CASE pt = "IERS_A" -> "bulletina"
      [] pt = "IERS_B" -> "bulletinb"
      [] pt = "IERS_C" -> "bulletinc"
      [] pt = "IERS_D" -> "bulletind"

\* url_id of the product type
UrlId(pt) ==
    CASE pt = "IERS_A" -> 6
      [] pt = "IERS_B" -> 207
      [] pt = "IERS_C" -> 16
      [] pt = "IERS_D" -> 17

OffsetB == 253

OffsetC == 10

OffsetD == 21

\* the class attribute offset
offset(pt) ==
    CASE pt = "IERS_A" -> <<18, 1>>
      [] pt = "IERS_B" -> <<OffsetB>>
      [] pt = "IERS_C" -> <<OffsetC>>
      [] pt = "IERS_D" -> <<OffsetD>>

\* the class attribute missing (empty where the class has none)
missing(pt) ==
    CASE pt = "IERS_A" -> {<<18, 5>>}
      [] pt = "IERS_D" -> {<<n>> : n \in {25, 26, 27, 29, 34, 35, 38, 42, 45, 47, 48, 49}}
      [] OTHER -> {}

RECURSIVE RunLength(_, _, _)
\* the length of the longest run of characters of cs in s from position pos (1-based)
RunLength(s, pos, cs) ==
    IF pos <= Len(s) /\ s[pos] \in cs THEN 1 + RunLength(s, pos + 1, cs) ELSE 0

\* [\d]{3} at position pos of s
ThreeDigits(s, pos) ==
    /\ pos + 2 <= Len(s)
    /\ \A k \in pos..(pos + 2) : IsDigit(s[k])

NoMatch == [matched |-> FALSE, volume |-> <<>>, number |-> <<>>]

\* re.match("^" + filename_pattern, basename).groupdict(), NoMatch for None.
\* The pattern is anchored at the start only.  [xvi]+ is greedy and the
\* character after it must be "-", so it is the longest run of x, v, i.
parse_filename(pt, filename) ==
    IF Len(filename) < 2 \/ filename[1] # FilenamePrefix(pt) \/ filename[2] # "-"
    THEN NoMatch
    ELSE IF pt = "IERS_A"
         THEN LET run == RunLength(filename, 3, {"x", "v", "i"})
              IN  IF /\ run >= 1
                     /\ 3 + run <= Len(filename)
                     /\ filename[3 + run] = "-"
                     /\ ThreeDigits(filename, 4 + run)
                  THEN [matched |-> TRUE,
                        volume |-> SubSeq(filename, 3, 2 + run),
                        number |-> SubSeq(filename, 4 + run, 6 + run)]
                  ELSE NoMatch
         ELSE IF ThreeDigits(filename, 3)
              THEN [matched |-> TRUE, volume |-> <<>>, number |-> SubSeq(filename, 3, 5)]
              ELSE NoMatch

\* os.path.splitext(physical_name)[1] without its dot: the token after the last "."
Extension(physical_name) ==
    IF Len(physical_name) >= 2 /\ physical_name[Len(physical_name) - 1] = "."
    THEN physical_name[Len(physical_name)]
    ELSE ""

\* IERSBulletin.remote_url, as the directory under https://datacenter.iers.org/data/
\* the name is fetched from: xml for .xml, the url_id for .txt
remote_url(pt, physical_name) ==
    IF Extension(physical_name) = "xml"
    THEN [exc |-> "none", catalog |-> <<"x", "m", "l">>]
    ELSE IF Extension(physical_name) = "txt"
         THEN [exc |-> "none", catalog |-> str(UrlId(pt))]
         ELSE [exc |-> "Exception", catalog |-> <<>>]

\* IERSBulletin.index_for_physical_name and IERSBulletinA.index_for_physical_name;
\* subscripting None raises TypeError
index_for_physical_name(pt, physical_name) ==
    LET name_attrs == parse_filename(pt, physical_name)
    IN  IF ~name_attrs.matched THEN [exc |-> "TypeError", val |-> <<>>]
        ELSE IF pt = "IERS_A"
             THEN [exc |-> "none",
                   val |-> <<fromRoman(name_attrs.volume), int(name_attrs.number)>>]
             ELSE [exc |-> "none", val |-> <<int(name_attrs.number)>>]

\* physical_name_for_index of the four classes
physical_name_for_index(pt, fmt, idx) ==
    IF pt = "IERS_A"
    THEN <<FilenamePrefix(pt), "-">> \o lower(toRoman(idx[1])) \o <<"-">>
            \o Format03(idx[2]) \o <<".", fmt>>
    ELSE <<FilenamePrefix(pt), "-">> \o Format03(idx[1]) \o <<".", fmt>>

\* next_index that forgets to start the next volume
next_index_SameVolume(pt, idx) ==
    IF pt = "IERS_A"
    THEN IF idx[2] = 53 THEN <<idx[1], 1>> ELSE <<idx[1], idx[2] + 1>>
    ELSE <<idx[1] + 1>>

\* IERSBulletin.next_index and IERSBulletinA.next_index
next_index(pt, idx) ==
    IF pt = "IERS_A"
    THEN IF idx[2] = 53 THEN <<idx[1] + 1, 1>> ELSE <<idx[1], idx[2] + 1>>
    ELSE <<idx[1] + 1>>

\* can_skip_index that knows no missing list
can_skip_index_NoMissing(pt, idx) ==
    IF pt = "IERS_A" THEN idx[2] = 53 ELSE FALSE

\* can_skip_index of the four classes; IERSBulletinA's falls off its end
\* (returns None) where this is FALSE, which "not" reads the same way
can_skip_index(pt, idx) ==
    IF pt = "IERS_A" THEN (idx \in missing(pt) \/ idx[2] = 53)
    ELSE IF pt = "IERS_D" THEN idx \in missing(pt)
    ELSE FALSE

\* the order of the indices of one product type: tuple order for IERS_A
IndexLess(pt, a, b) ==
    IF pt = "IERS_A" THEN a[1] < b[1] \/ (a[1] = b[1] /\ a[2] < b[2])
    ELSE a[1] < b[1]

----------------------------------------------------------------------------
(* Date handling routines *)

IsLeap(y) == y % 4 = 0 /\ (y % 100 # 0 \/ y % 400 = 0)

DaysInMonth(y, m) ==
    IF m = 2 THEN (IF IsLeap(y) THEN 29 ELSE 28)
    ELSE IF m \in {4, 6, 9, 11} THEN 30 ELSE 31

RECURSIVE DaysBeforeMonth(_, _)
DaysBeforeMonth(y, m) ==
    IF m <= 1 THEN 0 ELSE DaysBeforeMonth(y, m - 1) + DaysInMonth(y, m - 1)

DaysBeforeYear(y) ==
    (y - 1) * 365 + ((y - 1) \div 4) - ((y - 1) \div 100) + ((y - 1) \div 400)

\* datetime(year, month, day) as its ordinal; ValueError for no calendar date
datetime(y, m, d) ==
    IF y \in 1..9999 /\ m \in 1..12 /\ d >= 1 /\ d <= DaysInMonth(y, m)
    THEN [exc |-> "none", val |-> DaysBeforeYear(y) + DaysBeforeMonth(y, m) + d]
    ELSE [exc |-> "ValueError", val |-> 0]

\* datetime + timedelta(days=n)
PlusDays(dt, n) == dt + n

monthMap ==
    [january |-> 1, february |-> 2, march |-> 3, april |-> 4, may |-> 5, june |-> 6,
     july |-> 7, august |-> 8, september |-> 9, october |-> 10, november |-> 11,
     december |-> 12, janvier |-> 1, fevrier |-> 2, mars |-> 3, avril |-> 4, mai |-> 5,
     juin |-> 6, juillet |-> 7, aout |-> 8, septembre |-> 9, octobre |-> 10,
     novembre |-> 11, decembre |-> 12]

\* month.lower() for the month names the documents of the model spell with a capital
MonthLower(month) ==
    CASE month = "January" -> "january"
      [] month = "December" -> "december"
      [] month = "Fevrier" -> "fevrier"
      [] OTHER -> month

\* parse_text_date: text_date is the three tokens of text_date.split();
\* an unknown month name raises KeyError
parse_text_date(text_date, inverted) ==
    LET year  == IF inverted THEN text_date[1] ELSE text_date[3]
        month == text_date[2]
        day   == IF inverted THEN text_date[3] ELSE text_date[1]
    IN  IF MonthLower(month) \notin DOMAIN monthMap
        THEN [exc |-> "KeyError", val |-> 0]
        ELSE datetime(year, monthMap[MonthLower(month)], day)

\* parse_xml_time and datetime.strptime(text, "%Y-%m-%d"): t is <<year, month, day>>
parse_xml_time(t) == datetime(t[1], t[2], t[3])

\* mjd_to_datetime
mjd_to_datetime(mjd) == PlusDays(datetime(2000, 1, 1).val, mjd - 51544)

----------------------------------------------------------------------------
(* Content analysis.  A document is the record of what the extractors read:
   text_date: the creation date line of a text document, <<day, month, year>>;
   iso_date:  the date element of an XML document, <<year, month, day>>;
   mjd:       the MJD that starts the first row of bulletin A's series (text);
   times:     the rows of the table of a text bulletin A or B, or the time
              elements (A, B) or the single startDate element (C, D) of an
              XML document, each <<year, month, day>>;
   from_date: the "from"/"From the" date of a text bulletin C (inverted:
              <<year, month, day>>) or D (<<day, month, year>>).
   A date a record does not have is 0. *)

Failed(exc) ==
    [exc |-> exc, creation_date |-> 0, validity_start |-> 0, validity_stop |-> 0]

\* the first exception among the results rs, "none" when there is none
FirstExc(rs) ==
    IF \E k \in 1..Len(rs) : rs[k].exc # "none"
    THEN rs[CHOOSE k \in 1..Len(rs) :
                /\ rs[k].exc # "none"
                /\ \A j \in 1..(k - 1) : rs[j].exc = "none"].exc
    ELSE "none"

Dates(creation, start, stop, stopDays) ==
    IF FirstExc(<<creation, start, stop>>) # "none"
    THEN Failed(FirstExc(<<creation, start, stop>>))
    ELSE [exc |-> "none", creation_date |-> creation.val, validity_start |-> start.val,
          validity_stop |-> PlusDays(stop.val, stopDays)]

Ok(v) == [exc |-> "none", val |-> v]

IERSBulletinA_analyze_txt(doc) ==
    LET last == doc.times[Len(doc.times)]
    IN  Dates(parse_text_date(doc.text_date, FALSE),
              Ok(mjd_to_datetime(doc.mjd)),
              datetime(last[1], last[2], last[3]), 1)

IERSBulletinA_analyze_xml(doc) ==
    Dates(parse_xml_time(doc.iso_date),
          parse_xml_time(doc.times[1]),
          parse_xml_time(doc.times[Len(doc.times)]), 1)

IERSBulletinB_analyze_txt(doc) ==
    LET first == doc.times[1]
        last  == doc.times[Len(doc.times)]
    IN  Dates(parse_text_date(doc.text_date, FALSE),
              datetime(first[1], first[2], first[3]),
              datetime(last[1], last[2], last[3]), 1)

\* _analyze_xml of bulletin B without the day added to validity_stop
IERSBulletinB_analyze_xml_NoDay(doc) ==
    Dates(parse_xml_time(doc.iso_date),
          parse_xml_time(doc.times[1]),
          parse_xml_time(doc.times[Len(doc.times)]), 0)

IERSBulletinB_analyze_xml(doc) ==
    Dates(parse_xml_time(doc.iso_date),
          parse_xml_time(doc.times[1]),
          parse_xml_time(doc.times[Len(doc.times)]), 1)

\* bulletins C and D set no validity_stop
StartOnly(creation, start) ==
    IF FirstExc(<<creation, start>>) # "none"
    THEN Failed(FirstExc(<<creation, start>>))
    ELSE [exc |-> "none", creation_date |-> creation.val, validity_start |-> start.val,
          validity_stop |-> 0]

IERSBulletinC_analyze_txt(doc) ==
    StartOnly(parse_text_date(doc.text_date, FALSE), parse_text_date(doc.from_date, TRUE))

IERSBulletinC_analyze_xml(doc) ==
    StartOnly(parse_xml_time(doc.iso_date), parse_xml_time(doc.times[1]))

IERSBulletinD_analyze_txt(doc) ==
    StartOnly(parse_text_date(doc.text_date, FALSE), parse_text_date(doc.from_date, FALSE))

IERSBulletinD_analyze_xml(doc) ==
    StartOnly(parse_xml_time(doc.iso_date), parse_xml_time(doc.times[1]))

analyze_txt(pt, doc) ==
    CASE pt = "IERS_A" -> IERSBulletinA_analyze_txt(doc)
      [] pt = "IERS_B" -> IERSBulletinB_analyze_txt(doc)
      [] pt = "IERS_C" -> IERSBulletinC_analyze_txt(doc)
      [] pt = "IERS_D" -> IERSBulletinD_analyze_txt(doc)

analyze_xml(pt, doc) ==
    CASE pt = "IERS_A" -> IERSBulletinA_analyze_xml(doc)
      [] pt = "IERS_B" -> IERSBulletinB_analyze_xml(doc)
      [] pt = "IERS_C" -> IERSBulletinC_analyze_xml(doc)
      [] pt = "IERS_D" -> IERSBulletinD_analyze_xml(doc)

NoDates == [exc |-> "none", creation_date |-> 0, validity_start |-> 0, validity_stop |-> 0]

NoProperties ==
    [product_name |-> <<>>, remote_url |-> <<>>, number |-> 0, volume |-> 0,
     creation_date |-> 0, validity_start |-> 0, validity_stop |-> 0]

\* IERSBulletin.analyze(paths, filename_only) with paths = [inpath]; doc is the
\* content of inpath, read only when filename_only is false.  A filename the
\* pattern does not match makes name_attrs None, and name_attrs['number']
\* raises TypeError.  iers.volume is 0 where the record has none.
analyze(pt, inpath, filename_only, doc) ==
    LET name_attrs == parse_filename(pt, inpath)
        url        == remote_url(pt, inpath)
        dates      == IF filename_only THEN NoDates
                      ELSE IF Extension(inpath) = "txt" THEN analyze_txt(pt, doc)
                      ELSE IF Extension(inpath) = "xml" THEN analyze_xml(pt, doc)
                      ELSE NoDates
    IN  IF url.exc # "none" THEN [exc |-> url.exc, val |-> NoProperties]
        ELSE IF ~name_attrs.matched THEN [exc |-> "TypeError", val |-> NoProperties]
        ELSE IF dates.exc # "none" THEN [exc |-> dates.exc, val |-> NoProperties]
        ELSE [exc |-> "none",
              val |-> [product_name   |-> SubSeq(inpath, 1, Len(inpath) - 2),
                       remote_url     |-> url.catalog,
                       number         |-> int(name_attrs.number),
                       volume         |-> IF pt = "IERS_A"
                                          THEN fromRoman(name_attrs.volume) ELSE 0,
                       creation_date  |-> dates.creation_date,
                       validity_start |-> dates.validity_start,
                       validity_stop  |-> dates.validity_stop]]

----------------------------------------------------------------------------
(* The synchronizer *)

MaxPass == 2

MaxFound == 2

MaxOther == 1

\* resp.status_code: found, not found, a redirect (requests.head follows
\* none), a server error
Statuses == {200, 404, 302, 500}

RateLimits == {0, 120}

\* resp.raise_for_status(): requests raises HTTPError for 4xx and 5xx only
raise_for_status(st) == st >= 400 /\ st < 600

\* the properties sync hands to archive.create_properties for a probe of idx
\* that answered 200; uuid and size are values of the archive and of the
\* response and are left out.  probed is history: the index the probe was for.
Properties(pt, fmt, idx) ==
    LET physical_name == physical_name_for_index(pt, fmt, idx)
        properties    == analyze(pt, physical_name, TRUE, <<>>)
    IN  [exc |-> properties.exc,
         val |-> [product_type  |-> pt,
                  physical_name |-> physical_name,
                  product_name  |-> properties.val.product_name,
                  remote_url    |-> properties.val.remote_url,
                  number        |-> properties.val.number,
                  volume        |-> properties.val.volume,
                  active        |-> TRUE,
                  probed        |-> idx]]

\* archives a run can start from: empty, early in the series, and late in them
InitialArchives ==
    { {},
      {Properties("IERS_A", "txt", <<18, 3>>).val, Properties("IERS_D", "txt", <<24>>).val},
      {Properties("IERS_A", "xml", <<39, 52>>).val, Properties("IERS_B", "txt", <<998>>).val} }

\* archive.search(where product_type, order_by -iers.volume, -iers.number, limit 1):
\* the records the search may return first (none when the set is empty)
search(pt) ==
    LET mine == {r \in archive : r.product_type = pt}
    IN  {r \in mine : \A q \in mine :
            q.volume < r.volume \/ (q.volume = r.volume /\ q.number <= r.number)}

\* the product_types argument of sync: None, or a list
Requests ==
    { [given |-> FALSE, list |-> <<>>],
      [given |-> TRUE,  list |-> <<"IERS_B">>],
      [given |-> TRUE,  list |-> <<"IERS_D", "IERS_A">>],
      [given |-> TRUE,  list |-> <<"IERS_B", "IERS_X">>] }

ValidRequests == {r \in Requests : \A k \in 1..Len(r.list) : r.list[k] \in ProductTypes}

\* the state after IERSSynchronizer(config), before sync is called
Idle ==
    /\ pc = "idle"
    /\ error = "none"
    /\ product_types = <<>>
    /\ ti = 0
    /\ index = <<>>
    /\ status = 0
    /\ probed = [pt \in ProductTypes |-> <<>>]
    /\ created = [pt \in ProductTypes |-> <<>>]
    /\ nprobes = 0
    /\ slept = 0
    /\ found = 0
    /\ others = 0
    /\ pass = 0

Init ==
    /\ archive \in InitialArchives
    /\ format \in Formats
    /\ rate_limit \in RateLimits
    /\ Idle
    /\ fn = "sync"
    /\ arg = 0
    /\ out = 0

\* sync up to its for loop: the arguments it rejects raise Error
sync(request, start, end, force) ==
    /\ pass' = pass + 1
    /\ status' = 0
    /\ probed' = [pt \in ProductTypes |-> <<>>]
    /\ created' = [pt \in ProductTypes |-> <<>>]
    /\ nprobes' = 0
    /\ slept' = 0
    /\ found' = 0
    /\ others' = 0
    /\ index' = <<>>
    /\ IF \/ (request.given /\ \E k \in 1..Len(request.list) :
                                  request.list[k] \notin ProductTypes)
          \/ start # None
          \/ end # None
          \/ force
       THEN /\ pc' = "raised"
            /\ error' = "Error"
            /\ product_types' = <<>>
            /\ ti' = 0
       ELSE /\ pc' = "family"
            /\ error' = "none"
            /\ product_types' = IF request.given THEN request.list ELSE AllProductTypes
            /\ ti' = 1
    /\ UNCHANGED <<archive, format, rate_limit, fn, arg, out>>

\* the first run of sync on the archive
Sync ==
    /\ pc = "idle"
    /\ \E request \in Requests, start \in {None, "2020-01-01"},
          end \in {None, "2021-01-01"}, force \in BOOLEAN :
            sync(request, start, end, force)

\* a later run of sync on the archive the earlier runs left
SyncAgain ==
    /\ pc \in {"returned", "raised"}
    /\ pass < MaxPass
    /\ \E request \in ValidRequests : sync(request, None, None, FALSE)

\* the head of the for loop: the latest in the archive, or the offset
BeginFamily ==
    /\ pc = "family"
    /\ ti <= Len(product_types)
    /\ LET product_type == product_types[ti]
           result       == search(product_type)
       IN  IF result # {}
           THEN \E r \in result :
                  LET latest == index_for_physical_name(product_type, r.physical_name)
                  IN  IF latest.exc # "none"
                      THEN /\ pc' = "raised"
                           /\ error' = latest.exc
                           /\ index' = index
                      ELSE /\ pc' = "probe"
                           /\ error' = error
                           /\ index' = next_index(product_type, latest.val)
           ELSE /\ pc' = "probe"
                /\ error' = error
                /\ index' = offset(product_type)
    /\ UNCHANGED <<archive, format, rate_limit, product_types, ti, status, probed, created,
                   nprobes, slept, found, others, pass, fn, arg, out>>

\* the for loop is exhausted: sync returns
Return ==
    /\ pc = "family"
    /\ ti > Len(product_types)
    /\ pc' = "returned"
    /\ UNCHANGED <<archive, format, rate_limit, error, product_types, ti, index, status,
                   probed, created, nprobes, slept, found, others, pass, fn, arg, out>>

\* requests.head(...) is issued for index: the history of the probe
RequestsHead(st) ==
    /\ status' = st
    /\ probed' = [probed EXCEPT ![product_types[ti]] = Append(@, index)]
    /\ nprobes' = nprobes + 1
    /\ slept' = 0

\* the tail of the loop body: index = plugin.next_index(index), then the sleep
\* (rate_limit is an integer here, so "is not None" holds)
Advance ==
    /\ index' = next_index(product_types[ti], index)
    /\ pc' = IF rate_limit > 0 THEN "sleep" ELSE "probe"

\* a probe that answers 200
Probe200 ==
    /\ pc = "probe"
    /\ found < MaxFound
    /\ found' = found + 1
    /\ RequestsHead(200)
    /\ LET properties == Properties(product_types[ti], format, index)
       IN  IF properties.exc # "none"
           THEN /\ pc' = "raised"
                /\ error' = properties.exc
                /\ UNCHANGED <<archive, index, created>>
           ELSE /\ archive' = archive \cup {properties.val}
                /\ created' = [created EXCEPT ![product_types[ti]] = Append(@, index)]
                /\ error' = error
                /\ Advance
    /\ UNCHANGED <<format, rate_limit, product_types, ti, others, pass, fn, arg, out>>

\* a probe that answers 404
Probe404 ==
    /\ pc = "probe"
    /\ RequestsHead(404)
    /\ IF ~can_skip_index(product_types[ti], index)
       THEN /\ pc' = "family"
            /\ ti' = ti + 1
            /\ index' = index
       ELSE /\ ti' = ti
            /\ Advance
    /\ UNCHANGED <<archive, format, rate_limit, error, product_types, created, found,
                   others, pass, fn, arg, out>>

\* a probe that answers anything else
ProbeOther ==
    /\ pc = "probe"
    /\ \E st \in Statuses \ {200, 404} :
        /\ RequestsHead(st)
        /\ IF raise_for_status(st)
           THEN /\ pc' = "raised"
                /\ error' = "HTTPError"
                /\ UNCHANGED <<index, others>>
           ELSE /\ others < MaxOther
                /\ others' = others + 1
                /\ error' = error
                /\ Advance
    /\ UNCHANGED <<archive, format, rate_limit, product_types, ti, created, found, pass,
                   fn, arg, out>>

\* time.sleep(1 / (self.rate_limit / 60)), in milliseconds
Sleep ==
    /\ pc = "sleep"
    /\ slept' = slept + (60000 \div rate_limit)
    /\ pc' = "probe"
    /\ UNCHANGED <<archive, format, rate_limit, error, product_types, ti, index, status,
                   probed, created, nprobes, found, others, pass, fn, arg, out>>

Next ==
    \/ Sync
    \/ BeginFamily
    \/ Return
    \/ Probe200
    \/ Probe404
    \/ ProbeOther
    \/ Sleep

Spec == Init /\ [][Next]_vars

\* several runs of sync, one after the other, on one archive
NextPasses ==
    \/ Next
    \/ SyncAgain

SpecPasses == Init /\ [][NextPasses]_vars

\* the catalog answers 200 or 404 only, and sync is called with arguments it accepts
SyncValid ==
    /\ pc = "idle"
    /\ \E request \in ValidRequests : sync(request, None, None, FALSE)

NextCatalog ==
    \/ SyncValid
    \/ BeginFamily
    \/ Return
    \/ Probe200
    \/ Probe404
    \/ Sleep

SpecCatalog == Init /\ [][NextCatalog]_vars

----------------------------------------------------------------------------
(* The pure functions, applied to inputs drawn from bounded sets *)

MaxRoman == 3999

MaxVolume == 41

\* no synchronizer runs
NoSync ==
    /\ archive = {}
    /\ format = "txt"
    /\ rate_limit = 0
    /\ Idle

InitRoman ==
    /\ NoSync
    /\ fn = "roman"
    /\ arg \in 1..MaxRoman
    /\ out = [stage |-> "input", s |-> <<>>, n |-> 0]

EncodeRoman ==
    /\ fn = "roman"
    /\ out.stage = "input"
    /\ out' = [stage |-> "encoded", s |-> toRoman(arg), n |-> 0]
    /\ UNCHANGED <<syncVars, fn, arg>>

DecodeRoman ==
    /\ fn = "roman"
    /\ out.stage = "encoded"
    /\ out' = [out EXCEPT !.stage = "decoded", !.n = fromRoman(out.s)]
    /\ UNCHANGED <<syncVars, fn, arg>>

NextRoman ==
    \/ EncodeRoman
    \/ DecodeRoman

SpecRoman == InitRoman /\ [][NextRoman]_vars

\* the indices a walk reaches from the offset that the filename grammar of the
\* product type can spell: three digits, and for bulletin A a Roman volume
WalkIndices(pt) ==
    CASE pt = "IERS_A" -> {<<v, n>> : v \in 18..MaxVolume, n \in 1..53}
      [] pt = "IERS_B" -> {<<n>> : n \in OffsetB..999}
      [] pt = "IERS_C" -> {<<n>> : n \in OffsetC..999}
      [] pt = "IERS_D" -> {<<n>> : n \in OffsetD..999}

InitNames ==
    /\ NoSync
    /\ fn = "names"
    /\ \E pt \in ProductTypes, fmt \in Formats :
         \E idx \in WalkIndices(pt) : arg = [pt |-> pt, fmt |-> fmt, idx |-> idx]
    /\ out = [stage |-> "input", name |-> <<>>, index |-> [exc |-> "none", val |-> <<>>]]

FormatName ==
    /\ fn = "names"
    /\ out.stage = "input"
    /\ out' = [out EXCEPT !.stage = "named",
                          !.name = physical_name_for_index(arg.pt, arg.fmt, arg.idx)]
    /\ UNCHANGED <<syncVars, fn, arg>>

ParseName ==
    /\ fn = "names"
    /\ out.stage = "named"
    /\ out' = [out EXCEPT !.stage = "parsed",
                          !.index = index_for_physical_name(arg.pt, out.name)]
    /\ UNCHANGED <<syncVars, fn, arg>>

NextNames ==
    \/ FormatName
    \/ ParseName

SpecNames == InitNames /\ [][NextNames]_vars

IsoDates == {<<2023, 12, 31>>, <<2024, 1, 1>>, <<2024, 2, 29>>, <<2024, 2, 30>>}

TextDates == {<<31, "December", 2023>>, <<1, "janvier", 2024>>, <<29, "february", 2024>>,
              <<1, "jan", 2024>>}

InvertedTextDates == {<<d[3], d[2], d[1]>> : d \in TextDates}

Mjds == {60309, 60310, 60369}

\* one or two rows or time elements
Times == {<<a>> : a \in IsoDates} \cup {<<a, b>> : a \in IsoDates, b \in IsoDates}

NoDoc == [text_date |-> <<1, "january", 2024>>, iso_date |-> <<2024, 1, 1>>, mjd |-> 60310,
          times |-> <<<<2024, 1, 1>>>>, from_date |-> <<1, "january", 2024>>]

\* the documents of a product type and extension: the fields its extractor
\* reads vary, the others stay as in NoDoc
Documents(pt, ext) ==
    IF ext = "xml"
    THEN IF pt \in {"IERS_A", "IERS_B"}
         THEN {[NoDoc EXCEPT !.iso_date = c, !.times = t] : c \in IsoDates, t \in Times}
         ELSE {[NoDoc EXCEPT !.iso_date = c, !.times = <<t>>] : c \in IsoDates, t \in IsoDates}
    ELSE CASE pt = "IERS_A" ->
                {[NoDoc EXCEPT !.text_date = c, !.mjd = m, !.times = t] :
                    c \in TextDates, m \in Mjds, t \in Times}
           [] pt = "IERS_B" ->
                {[NoDoc EXCEPT !.text_date = c, !.times = t] : c \in TextDates, t \in Times}
           [] pt = "IERS_C" ->
                {[NoDoc EXCEPT !.text_date = c, !.from_date = f] :
                    c \in TextDates, f \in InvertedTextDates}
           [] pt = "IERS_D" ->
                {[NoDoc EXCEPT !.text_date = c, !.from_date = f] :
                    c \in TextDates, f \in TextDates}

InitAnalyze ==
    /\ NoSync
    /\ fn = "analyze"
    /\ \E pt \in ProductTypes, ext \in Formats :
         \E doc \in Documents(pt, ext) : arg = [pt |-> pt, ext |-> ext, doc |-> doc]
    /\ out = [stage |-> "input", exc |-> "none", val |-> NoProperties]

\* analyze([inpath]) of a document named for the offset of its product type
Analyze(ext) ==
    /\ fn = "analyze"
    /\ out.stage = "input"
    /\ arg.ext = ext
    /\ LET inpath     == physical_name_for_index(arg.pt, ext, offset(arg.pt))
           properties == analyze(arg.pt, inpath, FALSE, arg.doc)
       IN  out' = [stage |-> "analyzed", exc |-> properties.exc, val |-> properties.val]
    /\ UNCHANGED <<syncVars, fn, arg>>

AnalyzeTxt == Analyze("txt")

AnalyzeXml == Analyze("xml")

NextAnalyze ==
    \/ AnalyzeTxt
    \/ AnalyzeXml

SpecAnalyze == InitAnalyze /\ [][NextAnalyze]_vars

----------------------------------------------------------------------------
(* The claims *)

\* a step of sync that issues a probe
ProbeStep == nprobes' = nprobes + 1

\* the product type the for loop is at
Current == product_types[ti]

Last(seq) == seq[Len(seq)]

\* the indices the claims call skippable, written out
KnownGap(pt, idx) ==
    \/ pt = "IERS_A" /\ (idx = <<18, 5>> \/ idx[2] = 53)
    \/ pt = "IERS_D" /\ idx[1] \in {25, 26, 27, 29, 34, 35, 38, 42, 45, 47, 48, 49}

\* C1: a probe that answers 404 creates no record; at a skippable index (bulletin
\* A: <<18, 5>> or number 53; bulletin D: its missing list) the walk goes on to
\* next_index(index) in the same product type; at any other index the walk of
\* the product type ends, the loop moves to the next product type, and no
\* product type the loop has left is probed again.
C1_NotFound ==
    [][ProbeStep =>
          /\ Last(probed'[Current]) = index
          /\ \A k \in 1..Len(product_types) :
                k # ti => probed'[product_types[k]] = probed[product_types[k]]
          /\ status' = 404 =>
                /\ archive' = archive
                /\ created' = created
                /\ IF KnownGap(Current, index)
                   THEN /\ ti' = ti
                        /\ pc' \in {"probe", "sleep"}
                        /\ index' = next_index(Current, index)
                   ELSE /\ ti' = ti + 1
                        /\ pc' = "family"]_vars

\* C1 witness: the 404 of bulletin A's <<18, 5>> was skipped and <<18, 6>> is next
C1_Witness ==
    /\ pc = "probe"
    /\ status = 404
    /\ Current = "IERS_A"
    /\ Len(probed["IERS_A"]) >= 1
    /\ Last(probed["IERS_A"]) = <<18, 5>>
    /\ index = <<18, 6>>

\* C2: a probe answered with a status other than 200 and 404 makes sync raise
\* at once, with the archive as the earlier probes left it.
C2_OtherStatusAborts ==
    [][(ProbeStep /\ status' \notin {200, 404}) =>
          (pc' = "raised" /\ archive' = archive)]_vars

\* C3: in one run the indices probed for a product type, and the indices records
\* are created for, are strictly increasing in the order of the product type.
C3_StrictlyIncreasing ==
    \A pt \in ProductTypes :
        /\ \A i, j \in 1..Len(probed[pt]) :
              i < j => IndexLess(pt, probed[pt][i], probed[pt][j])
        /\ \A i, j \in 1..Len(created[pt]) :
              i < j => IndexLess(pt, created[pt][i], created[pt][j])

\* C3 witness: a walk of bulletin A went over the end of volume 39
C3_Witness ==
    /\ Len(probed["IERS_A"]) >= 2
    /\ probed["IERS_A"][1] = <<39, 53>>
    /\ probed["IERS_A"][2] = <<40, 1>>

\* C4: a probe that answers 200 hands exactly one record to create_properties,
\* whose iers.number (and iers.volume for bulletin A) is the index probed, and
\* the walk goes on to next_index(index).
C4_FoundCreatesRecord ==
    [][(ProbeStep /\ status' = 200) =>
          /\ created' = [created EXCEPT ![Current] = Append(@, index)]
          /\ \E r \in archive' :
                /\ archive' = archive \cup {r}
                /\ r.product_type = Current
                /\ r.number = Last(index)
                /\ Current = "IERS_A" => r.volume = index[1]
          /\ index' = next_index(Current, index)]_vars

\* C5: with rate_limit > 0 a sleep of 60 / rate_limit seconds lies between any
\* two successive probes of a run; with rate_limit = 0 there is no sleep.
C5_SleepBetweenProbes ==
    [][(ProbeStep /\ nprobes >= 1) =>
          IF rate_limit > 0 THEN slept = 60000 \div rate_limit ELSE slept = 0]_vars

\* C6: for every product type, format and index the walk reaches,
\* index_for_physical_name(physical_name_for_index(format, index)) = index.
C6_NameRoundTrip ==
    out.stage = "parsed" => (out.index.exc = "none" /\ out.index.val = arg.idx)

\* C7: fromRoman(toRoman(n)) = n for every n in 1..MaxRoman.
C7_RomanRoundTrip ==
    out.stage = "decoded" => out.n = arg

\* C7 witness: 3888 went through its fifteen numerals
C7_Witness ==
    /\ out.stage = "decoded"
    /\ arg = 3888
    /\ out.s = <<"M", "M", "M", "D", "C", "C", "C", "L", "X", "X", "X", "V", "I", "I", "I">>

\* C8 as claimed: every record analyze returns has creation_date <=
\* validity_start, and for bulletins A and B validity_start <= validity_stop.
C8_DatesOrdered ==
    (out.stage = "analyzed" /\ out.exc = "none") =>
        /\ out.val.creation_date <= out.val.validity_start
        /\ arg.pt \in {"IERS_A", "IERS_B"} =>
              out.val.validity_start <= out.val.validity_stop

\* the first and the last date the document gives for its validity
DocumentFirst ==
    IF arg.pt = "IERS_A" /\ arg.ext = "txt"
    THEN DaysBeforeYear(2000) + 1 + (arg.doc.mjd - 51544)
    ELSE parse_xml_time(arg.doc.times[1]).val

DocumentLast == parse_xml_time(Last(arg.doc.times)).val

\* C8 as amended: for bulletins A and B validity_stop is the day after the last
\* date of the document, so validity_start < validity_stop whenever the first
\* date of the document is not after its last; bulletins C and D have no
\* validity_stop.  creation_date and validity_start are not ordered.
C8_StopIsDayAfterLast ==
    (out.stage = "analyzed" /\ out.exc = "none") =>
        IF arg.pt \in {"IERS_A", "IERS_B"}
        THEN /\ out.val.validity_stop = DocumentLast + 1
             /\ DocumentFirst <= DocumentLast =>
                   out.val.validity_start < out.val.validity_stop
        ELSE out.val.validity_stop = 0

\* C8 witness: an XML bulletin B of one time element, created the day after it
C8_Witness ==
    /\ out.stage = "analyzed"
    /\ out.exc = "none"
    /\ arg.pt = "IERS_B"
    /\ arg.ext = "xml"
    /\ arg.doc.times = <<<<2023, 12, 31>>>>
    /\ arg.doc.iso_date = <<2024, 1, 1>>
    /\ out.val.creation_date > out.val.validity_start
    /\ out.val.validity_stop = out.val.validity_start + 1

\* the greatest index a record of pt in the archive was created for
RECURSIVE Highest(_, _)
Highest(pt, idxs) ==
    LET a == CHOOSE x \in idxs : TRUE
    IN  IF idxs = {a} THEN a
        ELSE LET h == Highest(pt, idxs \ {a})
             IN  IF IndexLess(pt, h, a) THEN a ELSE h

Archived(pt) == {r.probed : r \in {q \in archive : q.product_type = pt}}

\* C9: the walk of a product type starts at its offset when the archive holds
\* no record of it, and at the successor of the highest index in the archive
\* otherwise; no index the archive holds a record for is probed.
C9_ResumeAfterHighest ==
    [][/\ (pc = "family" /\ pc' = "probe") =>
             index' = IF Archived(Current) = {} THEN offset(Current)
                      ELSE next_index(Current, Highest(Current, Archived(Current)))
       /\ ProbeStep => index \notin Archived(Current)]_vars

\* C10: when the catalog answers 200 or 404 only, and 200 finitely often, sync
\* does not stop before it returns, and when it has returned every requested
\* product type was walked up to a 404 at an index that cannot be skipped.
C10_SyncReturns ==
    /\ pc # "raised"
    /\ pc = "returned" =>
          \A k \in 1..Len(product_types) :
             /\ Len(probed[product_types[k]]) >= 1
             /\ ~KnownGap(product_types[k], Last(probed[product_types[k]]))

====
